---- MODULE Spec2Model ----
(***************************************************************************)
(* Extension sandbox of the phylum CLI: package validation                 *)
(* (Extension::try_from), the lifecycle operations install / uninstall /   *)
(* load on canonical storage, name validation, and the module loader of    *)
(* the Deno runtime (ExtensionsModuleLoader::load).                        *)
(*                                                                         *)
(* Strings are sequences of one-character strings, a path is a sequence of *)
(* components (PathBuf), an absolute path starts with the component ROOTC. *)
(* The filesystem is a function from the absolute paths that exist to      *)
(* their nodes (directory, regular file, symbolic link).                   *)
(* task holds the work in flight: the steps of one Extension::run, or the  *)
(* install calls that run at the same time.                                *)
(***************************************************************************)
EXTENDS Integers, Sequences, FiniteSets, TLC

VARIABLES fs, ext, res, task

vars == <<fs, ext, res, task>>

----------------------------------------------------------------------------
(* Characters and strings *)

Lower == {"a","b","c","d","e","f","g","h","i","j","k","l","m",
          "n","o","p","q","r","s","t","u","v","w","x","y","z"}

Digit == {"0","1","2","3","4","5","6","7","8","9"}

Dash == {"-"}

\* Longest candidate name the name-validation specification enumerates.
MaxNameLen == 3

\* Characters the candidate names are built from: members of each class of
\* the pattern and characters outside all of them.
NameAlphabet == {"a", "z", "0", "-", "_", "A", "@", "\n"}

RECURSIVE SeqsUpTo(_, _)
SeqsUpTo(S, n) ==
    IF n = 0 THEN {<<>>}
    ELSE LET shorter == SeqsUpTo(S, n - 1)
         IN  shorter \cup {Append(s, c) : s \in {t \in shorter : Len(t) = n - 1}, c \in S}

CandidateNames == SeqsUpTo(NameAlphabet, MaxNameLen)

----------------------------------------------------------------------------
(* EXTENSION_NAME_RE = ^[a-z][a-z0-9-]+$ and Regex::is_match.              *)
(* is_match searches for a match anywhere in the text; the anchors ^ and $ *)
(* (no multi-line flag) pin the two ends of the match to the two ends of   *)
(* the text.  [a-z][a-z0-9-]+ matches text[i..j] when it has one character *)
(* of the first class followed by one or more of the second.               *)

ReFirstClass == Lower

ReRestClass == Lower \cup Digit \cup Dash

\* text[i..j] (j exclusive end offset, 0-based offsets as in the regex crate)
\* is matched by [a-z][a-z0-9-]+
ReBodyMatches(text, i, j) ==
    /\ j - i >= 2
    /\ text[i + 1] \in ReFirstClass
    /\ \A k \in (i + 2)..j : text[k] \in ReRestClass

\* ^ holds at offset 0 only, $ at offset Len(text) only
ReStartAnchor(text, i) == i = 0

ReEndAnchor(text, j) == j = Len(text)

EXTENSION_NAME_RE_AllowsOneChar(text) ==
    \E i \in 0..Len(text) : \E j \in i..Len(text) :
        /\ ReStartAnchor(text, i)
        /\ j - i >= 1
        /\ text[i + 1] \in ReFirstClass
        /\ \A k \in (i + 2)..j : text[k] \in ReRestClass
        /\ ReEndAnchor(text, j)

EXTENSION_NAME_RE(text) ==
    \E i \in 0..Len(text) : \E j \in i..Len(text) :
        /\ ReStartAnchor(text, i)
        /\ ReBodyMatches(text, i, j)
        /\ ReEndAnchor(text, j)

----------------------------------------------------------------------------
(* Results and error messages.  A message is the sequence of the phrases   *)
(* of its format string; the formatted argument is kept apart in subject.  *)

NoMsg == <<>>

MsgInvalidName ==
    <<": ", "invalid extension name", ", must be lowercase alphanumeric, dash (-) or underscore (_)">>

Contains(msg, phrase) == \E i \in 1..Len(msg) : msg[i] = phrase

Ok == [ok |-> TRUE, msg |-> NoMsg]

Err(m) == [ok |-> FALSE, msg |-> m]

validate_name(name) ==
    IF EXTENSION_NAME_RE(name) THEN Ok ELSE Err(MsgInvalidName)

----------------------------------------------------------------------------
(* Paths (std::path::PathBuf) *)

ROOTC == <<"/">>

DOTDOT == <<".", ".">>

NotFound == <<>>

Last(p) == p[Len(p)]

Parent(p) == IF Len(p) <= 1 THEN p ELSE SubSeq(p, 1, Len(p) - 1)

\* Path::starts_with: whole components only
StartsWith(p, base) ==
    /\ Len(base) <= Len(p)
    /\ SubSeq(p, 1, Len(base)) = base

\* Path::strip_prefix, for a path that starts with base
StripPrefix(p, base) == SubSeq(p, Len(base) + 1, Len(p))

\* Path::join: an absolute argument replaces the receiver
Join(p, q) == IF q # <<>> /\ q[1] = ROOTC THEN q ELSE p \o q

----------------------------------------------------------------------------
(* Filesystem nodes *)

NoData == [toml |-> FALSE, code |-> "none"]

\* A manifest document that parses into ExtensionManifest.  entry_point is
\* kept as the component sequence PathBuf::join parses its string into.
TomlData(name, entry_point) ==
    [toml |-> TRUE, name |-> name, entry_point |-> entry_point]

\* Source text; tag "ok" parses as a module, tag "bad" does not.
CodeData(tag) == [toml |-> FALSE, code |-> tag]

\* The text of a file read as source: a manifest document is no module.
TextOf(data) == IF data.toml THEN "bad" ELSE data.code

\* builder.mode(0o700)
DirMode == 448

DirNode(mode) == [kind |-> "dir", mode |-> mode]

FileNode(data) == [kind |-> "file", mode |-> 420, data |-> data]

LinkNode(target) == [kind |-> "symlink", target |-> target]

----------------------------------------------------------------------------
(* Path resolution as the operating system does it: every component but    *)
(* possibly the last is followed when it is a symbolic link, ".." steps to *)
(* the parent of the directory reached so far.                             *)

RECURSIVE ResolveFrom(_, _, _)
ResolveFrom(f, cur, rest) ==
    IF rest = <<>> THEN cur
    ELSE IF cur \notin DOMAIN f \/ f[cur].kind # "dir" THEN NotFound
    ELSE LET c == Head(rest)
             n == Append(cur, c)
         IN  IF c = DOTDOT THEN ResolveFrom(f, Parent(cur), Tail(rest))
             ELSE IF n \notin DOMAIN f THEN NotFound
             ELSE IF f[n].kind = "symlink"
                  THEN ResolveFrom(f, <<ROOTC>>, Tail(f[n].target) \o Tail(rest))
             ELSE ResolveFrom(f, n, Tail(rest))

\* The node an absolute path names, symbolic links followed (stat)
Realpath(f, p) ==
    IF p = <<>> \/ p[1] # ROOTC THEN NotFound ELSE ResolveFrom(f, <<ROOTC>>, Tail(p))

\* The directory entry an absolute path names, last component not followed
\* (lstat)
EntryPath(f, p) ==
    IF Len(p) <= 1 THEN Realpath(f, p)
    ELSE LET par == Realpath(f, Parent(p))
         IN  IF par = NotFound \/ f[par].kind # "dir" THEN NotFound
             ELSE IF Last(p) = DOTDOT THEN Parent(par)
             ELSE IF Append(par, Last(p)) \in DOMAIN f THEN Append(par, Last(p))
             ELSE NotFound

\* Path::exists, Path::is_dir, Path::is_file follow symbolic links;
\* Path::is_symlink does not.
exists(f, p) == Realpath(f, p) # NotFound

is_dir(f, p) == Realpath(f, p) # NotFound /\ f[Realpath(f, p)].kind = "dir"

is_file(f, p) == Realpath(f, p) # NotFound /\ f[Realpath(f, p)].kind = "file"

is_symlink(f, p) == EntryPath(f, p) # NotFound /\ f[EntryPath(f, p)].kind = "symlink"

\* fs::read / fs::read_to_string: the bytes of a regular file
ReadFile(f, p) ==
    IF is_file(f, p) THEN [ok |-> TRUE, data |-> f[Realpath(f, p)].data, at |-> Realpath(f, p)]
    ELSE [ok |-> FALSE, data |-> NoData, at |-> NotFound]

Put(f, k, node) == [x \in DOMAIN f \cup {k} |-> IF x = k THEN node ELSE f[x]]

\* mkdir(2)
Mkdir(f, p, mode) ==
    LET par == Realpath(f, Parent(p))
    IN  IF Len(p) <= 1 THEN [status |-> "exists", fs |-> f]
        ELSE IF par = NotFound \/ f[par].kind # "dir" THEN [status |-> "notfound", fs |-> f]
        ELSE IF Append(par, Last(p)) \in DOMAIN f THEN [status |-> "exists", fs |-> f]
        ELSE [status |-> "ok", fs |-> Put(f, Append(par, Last(p)), DirNode(mode))]

\* DirBuilder::create with recursive(true) (std's create_dir_all)
RECURSIVE CreateDirAll(_, _, _)
CreateDirAll(f, p, mode) ==
    LET m == Mkdir(f, p, mode)
    IN  IF m.status = "ok" THEN [ok |-> TRUE, fs |-> m.fs]
        ELSE IF m.status = "notfound"
        THEN IF Len(p) <= 1 THEN [ok |-> FALSE, fs |-> f]
             ELSE LET up == CreateDirAll(f, Parent(p), mode)
                      m2 == Mkdir(up.fs, p, mode)
                  IN  IF ~up.ok THEN [ok |-> FALSE, fs |-> up.fs]
                      ELSE IF m2.status = "ok" THEN [ok |-> TRUE, fs |-> m2.fs]
                      ELSE [ok |-> is_dir(up.fs, p), fs |-> up.fs]
        ELSE [ok |-> is_dir(f, p), fs |-> f]

\* fs::copy: the destination is created, or truncated when it exists
RECURSIVE CopyFile(_, _, _)
CopyFile(f, src, dst) ==
    LET rd  == ReadFile(f, src)
        par == Realpath(f, Parent(dst))
        n   == Append(par, Last(dst))
    IN  IF ~rd.ok \/ Len(dst) <= 1 \/ par = NotFound THEN [ok |-> FALSE, fs |-> f]
        ELSE IF f[par].kind # "dir" THEN [ok |-> FALSE, fs |-> f]
        ELSE IF n \notin DOMAIN f \/ f[n].kind = "file"
             THEN [ok |-> TRUE, fs |-> Put(f, n, [FileNode(rd.data) EXCEPT !.mode = f[rd.at].mode])]
        ELSE IF f[n].kind = "symlink" THEN CopyFile(f, src, f[n].target)
        ELSE [ok |-> FALSE, fs |-> f]

\* fs::remove_dir_all: a symbolic link is removed itself, never followed
RemoveDirAll(f, p) ==
    LET n == EntryPath(f, p)
    IN  IF n = NotFound \/ f[n].kind = "file" THEN [ok |-> FALSE, fs |-> f]
        ELSE IF f[n].kind = "symlink"
             THEN [ok |-> TRUE, fs |-> [k \in DOMAIN f \ {n} |-> f[k]]]
        ELSE [ok |-> TRUE, fs |-> [k \in {x \in DOMAIN f : ~StartsWith(x, n)} |-> f[k]]]

\* WalkDir::new(root) with its defaults: the root first, every directory
\* before its contents, symbolic links reported and not descended into.
\* The order of the entries of one directory is the operating system's, so
\* every order is a possible walk.  Entries are given relative to the root.
Children(f, k) == {c \in DOMAIN f : Len(c) = Len(k) + 1 /\ StartsWith(c, k)}

RECURSIVE WalksFrom(_, _), ForestWalks(_, _)
WalksFrom(f, k) ==
    IF f[k].kind = "dir" THEN {<<k>> \o t : t \in ForestWalks(f, Children(f, k))}
    ELSE {<<k>>}

ForestWalks(f, C) ==
    IF C = {} THEN {<<>>}
    ELSE UNION {{a \o b : a \in WalksFrom(f, c), b \in ForestWalks(f, C \ {c})} : c \in C}

Walks(f, root) ==
    LET r == Realpath(f, root)
    IN  IF r = NotFound THEN {}
        ELSE {[i \in 1..Len(w) |-> StripPrefix(w[i], r)] : w \in WalksFrom(f, r)}

----------------------------------------------------------------------------
(* Canonical storage (extension.rs, extensions_path / extension_path)      *)

\* dirs::data_dir(): the platform data home ($XDG_DATA_HOME)
data_dir == <<ROOTC, <<"h">>>>

PHYLUM == <<"p", "h", "y", "l", "u", "m">>

EXTENSIONS == <<"e", "x", "t", "e", "n", "s", "i", "o", "n", "s">>

MANIFEST_NAME == <<"P", "h", "y", "l", "u", "m", "E", "x", "t", ".", "t", "o", "m", "l">>

extensions_path == data_dir \o <<PHYLUM, EXTENSIONS>>

extension_path(name) == Append(extensions_path, name)

----------------------------------------------------------------------------
(* Extension and its validation (impl TryFrom<PathBuf> for Extension)      *)

NoManifest == [name |-> <<>>, entry_point |-> <<>>]

NoExt == [path |-> <<>>, manifest |-> NoManifest]

MsgNotADirectory == <<": ", "not a directory">>

MsgMissingManifest == <<": ", "missing ", "PhylumExt.toml">>

MsgIo == <<"io error">>

MsgToml == <<"manifest parse error">>

MsgEntryMissing == <<": ", "entry point does not exist">>

MsgEntryNotFile == <<": ", "entry point is not a file">>

Failed(m) == [ok |-> FALSE, msg |-> m, ext |-> NoExt]

try_from(f, path) ==
    LET manifest_path    == Append(path, MANIFEST_NAME)
        buf              == ReadFile(f, manifest_path)
        manifest         == [name |-> buf.data.name, entry_point |-> buf.data.entry_point]
        entry_point_path == Join(path, manifest.entry_point)
    IN  IF ~is_dir(f, path) THEN Failed(MsgNotADirectory)
        ELSE IF ~exists(f, manifest_path) THEN Failed(MsgMissingManifest)
        ELSE IF ~buf.ok THEN Failed(MsgIo)
        ELSE IF ~buf.data.toml THEN Failed(MsgToml)
        ELSE IF ~exists(f, entry_point_path) THEN Failed(MsgEntryMissing)
        ELSE IF ~is_file(f, entry_point_path) THEN Failed(MsgEntryNotFile)
        ELSE IF ~validate_name(manifest.name).ok
             THEN Failed(validate_name(manifest.name).msg)
        ELSE [ok |-> TRUE, msg |-> NoMsg, ext |-> [path |-> path, manifest |-> manifest]]

\* Extension::load
load(f, name) == try_from(f, extension_path(name))

----------------------------------------------------------------------------
(* Extension::install                                                      *)

MsgAlreadyExists == <<"extension ", "already exists", ", ", "skipping">>

MsgIdentical == <<"extension path and installation path are identical, ", "skipping">>

MsgDestExists == <<": ", "already exists">>

\* One iteration of the loop over the walk: rel is the entry relative to
\* self.path.  skipped tells whether the symbolic-link warning was logged.
InstallEntry(f, self, target_prefix, rel) ==
    LET source_path == self.path \o rel
        dest_path   == target_prefix \o rel
        mk          == CreateDirAll(f, dest_path, DirMode)
        cp          == CopyFile(f, source_path, dest_path)
    IN  IF is_dir(f, source_path)
        THEN [ok |-> mk.ok, msg |-> IF mk.ok THEN NoMsg ELSE MsgIo, fs |-> mk.fs, skipped |-> FALSE]
        ELSE IF is_symlink(f, source_path)
        THEN [ok |-> TRUE, msg |-> NoMsg, fs |-> f, skipped |-> TRUE]
        ELSE IF is_file(f, source_path)
        THEN IF exists(f, dest_path)
             THEN [ok |-> FALSE, msg |-> MsgDestExists, fs |-> f, skipped |-> FALSE]
             ELSE [ok |-> cp.ok, msg |-> IF cp.ok THEN NoMsg ELSE MsgIo, fs |-> cp.fs, skipped |-> FALSE]
        ELSE [ok |-> TRUE, msg |-> NoMsg, fs |-> f, skipped |-> FALSE]

\* The loop from entry i of the walk w on; skipped collects the source
\* paths the warning was logged for.
RECURSIVE InstallLoop(_, _, _, _, _, _)
InstallLoop(f, self, target_prefix, w, i, skipped) ==
    IF i > Len(w) THEN [ok |-> TRUE, msg |-> NoMsg, fs |-> f, skipped |-> skipped]
    ELSE LET r == InstallEntry(f, self, target_prefix, w[i])
         IN  IF ~r.ok THEN [ok |-> FALSE, msg |-> r.msg, fs |-> r.fs, skipped |-> skipped]
             ELSE InstallLoop(r.fs, self, target_prefix, w, i + 1,
                              IF r.skipped THEN skipped \cup {self.path \o w[i]} ELSE skipped)

\* w is the walk WalkDir produces for self.path; the empty walk stands for
\* a root that cannot be read (the first entry is an error).
install_NoExistsCheck(f, self, w) ==
    LET target_prefix == extension_path(self.manifest.name)
    IN  IF target_prefix = self.path
        THEN [ok |-> FALSE, msg |-> MsgIdentical, fs |-> f, skipped |-> {}]
        ELSE IF w = <<>> THEN [ok |-> FALSE, msg |-> MsgIo, fs |-> f, skipped |-> {}]
        ELSE InstallLoop(f, self, target_prefix, w, 1, {})

install(f, self, w) ==
    LET target_prefix == extension_path(self.manifest.name)
    IN  IF exists(f, target_prefix)
        THEN [ok |-> FALSE, msg |-> MsgAlreadyExists, fs |-> f, skipped |-> {}]
        ELSE IF target_prefix = self.path
        THEN [ok |-> FALSE, msg |-> MsgIdentical, fs |-> f, skipped |-> {}]
        ELSE IF w = <<>> THEN [ok |-> FALSE, msg |-> MsgIo, fs |-> f, skipped |-> {}]
        ELSE InstallLoop(f, self, target_prefix, w, 1, {})

----------------------------------------------------------------------------
(* Extension::uninstall                                                    *)

MsgNotInstalled == <<"extension ", " is ", "not installed", ", ", "skipping">>

uninstall_NoPathCheck(f, self) ==
    LET rm == RemoveDirAll(f, self.path)
    IN  [ok |-> rm.ok, msg |-> IF rm.ok THEN NoMsg ELSE MsgIo, fs |-> rm.fs]

uninstall(f, self) ==
    LET target_prefix == extension_path(self.manifest.name)
        rm            == RemoveDirAll(f, self.path)
    IN  IF target_prefix # self.path
        THEN [ok |-> FALSE, msg |-> MsgNotInstalled, fs |-> f]
        ELSE [ok |-> rm.ok, msg |-> IF rm.ok THEN NoMsg ELSE MsgIo, fs |-> rm.fs]

----------------------------------------------------------------------------
(* Module loader (deno.rs, ExtensionsModuleLoader)                         *)
(* A module specifier is a URL: scheme, host and path components.          *)

NoHost == [kind |-> "none", name |-> ""]

Domain(name) == [kind |-> "domain", name |-> name]

Ipv4(name) == [kind |-> "ipv4", name |-> name]

FileUrl(path) == [scheme |-> "file", host |-> NoHost, path |-> path]

\* ModuleSpecifier::parse("deno:phylum")
PhylumUrl == [scheme |-> "deno", host |-> NoHost, path |-> <<PHYLUM>>]

\* The part of a file name after its last dot
FileExt(name) ==
    IF \E i \in 1..Len(name) : name[i] = "."
    THEN LET i == CHOOSE i \in 1..Len(name) :
                      name[i] = "." /\ \A j \in (i + 1)..Len(name) : name[j] # "."
         IN  SubSeq(name, i + 1, Len(name))
    ELSE <<>>

\* MediaType::from: decided by the extension of the last path component
MediaTypeOf(url) ==
    LET e == IF url.path = <<>> THEN <<>> ELSE FileExt(Last(url.path))
    IN  CASE e = <<"j", "s">>           -> "JavaScript"
          [] e = <<"m", "j", "s">>      -> "Mjs"
          [] e = <<"c", "j", "s">>      -> "Cjs"
          [] e = <<"t", "s">>           -> "TypeScript"
          [] e = <<"j", "s", "x">>      -> "Jsx"
          [] e = <<"m", "t", "s">>      -> "Mts"
          [] e = <<"c", "t", "s">>      -> "Cts"
          [] e = <<"t", "s", "x">>      -> "Tsx"
          [] e = <<"j", "s", "o", "n">> -> "Json"
          [] OTHER                      -> "Unknown"

ShouldTranspile(media_type) == media_type \in {"TypeScript", "Jsx", "Mts", "Cts", "Tsx"}

ModuleTypeOf(media_type) == IF media_type = "Json" THEN "Json" ELSE "JavaScript"

\* (the back quotes of the messages are left out)
MsgNotAPath == <<": is not a path">>

MsgOutside ==
    <<": ", "importing from paths outside of the extension's directory is not allowed">>

MsgSymlink == <<": ", "importing from symlinks is not allowed">>

MsgDomain == <<": ", "importing from domains other than deno.land is not allowed">>

MsgUnknownFormat == <<"Unknown JS module format: ">>

MsgUnsupported == <<"Unsupported module specifier: ">>

MsgTranspile == <<"transpile error">>

MsgNetwork == <<"network error">>

NoCode == [text |-> "none", transpiled |-> FALSE]

\* Url::to_file_path: a file URL with a host other than localhost has none
to_file_path(url) ==
    IF url.host = NoHost \/ url.host = Domain("localhost")
    THEN [ok |-> TRUE, path |-> url.path]
    ELSE [ok |-> FALSE, path |-> <<>>]

\* read is the file the bytes came from (NotFound when nothing was read)
LoadFail(m) == [ok |-> FALSE, msg |-> m, code |-> NoCode, read |-> NotFound, fetched |-> FALSE]

load_from_filesystem(f, url) ==
    LET path == to_file_path(url).path
        rd   == ReadFile(f, path)
    IN  IF ~to_file_path(url).ok THEN LoadFail(MsgNotAPath)
        ELSE IF ~StartsWith(path, extensions_path) THEN LoadFail(MsgOutside)
        ELSE IF is_symlink(f, path) THEN LoadFail(MsgSymlink)
        ELSE IF ~rd.ok THEN LoadFail(MsgIo)
        ELSE [ok |-> TRUE, msg |-> NoMsg, code |-> [text |-> TextOf(rd.data), transpiled |-> FALSE],
              read |-> rd.at, fetched |-> FALSE]

\* net is what the network answers to the request: "fail", or the tag of
\* the text of the response
load_from_deno_std_AnyDomain(url, net) ==
    IF url.host.kind = "domain"
    THEN IF net = "fail"
         THEN [LoadFail(MsgNetwork) EXCEPT !.fetched = TRUE]
         ELSE [ok |-> TRUE, msg |-> NoMsg, code |-> [text |-> net, transpiled |-> FALSE],
               read |-> NotFound, fetched |-> TRUE]
    ELSE LoadFail(MsgDomain)

load_from_deno_std(url, net) ==
    IF url.host = Domain("deno.land")
    THEN IF net = "fail"
         THEN [LoadFail(MsgNetwork) EXCEPT !.fetched = TRUE]
         ELSE [ok |-> TRUE, msg |-> NoMsg, code |-> [text |-> net, transpiled |-> FALSE],
               read |-> NotFound, fetched |-> TRUE]
    ELSE LoadFail(MsgDomain)

\* transpile: the text is parsed as a module, which fails on text that is
\* no module
transpile(code) ==
    IF code.text = "bad" THEN [ok |-> FALSE, code |-> NoCode]
    ELSE [ok |-> TRUE, code |-> [text |-> code.text, transpiled |-> TRUE]]

NoSource == [code |-> NoCode, module_type |-> "none", url |-> PhylumUrl]

\* phylum_module: the embedded extension_api.ts, transpiled
phylum_module ==
    [ok |-> TRUE, msg |-> NoMsg, read |-> NotFound, fetched |-> FALSE,
     source |-> [code |-> transpile([text |-> "extension_api", transpiled |-> FALSE]).code,
                 module_type |-> "JavaScript", url |-> PhylumUrl]]

ModuleLoadFail(r) ==
    [ok |-> FALSE, msg |-> r.msg, read |-> r.read, fetched |-> r.fetched, source |-> NoSource]

\* ModuleLoader::load
module_load(f, module_specifier, net) ==
    LET media_type == MediaTypeOf(module_specifier)
        loaded     == CASE module_specifier.scheme = "file"
                             -> load_from_filesystem(f, module_specifier)
                        [] module_specifier.scheme = "https"
                             -> load_from_deno_std(module_specifier, net)
                        [] OTHER -> LoadFail(MsgUnsupported)
        js         == transpile(loaded.code)
    IN  IF module_specifier = PhylumUrl THEN phylum_module
        ELSE IF media_type = "Unknown" THEN ModuleLoadFail(LoadFail(MsgUnknownFormat))
        ELSE IF ~loaded.ok THEN ModuleLoadFail(loaded)
        ELSE IF ShouldTranspile(media_type) /\ ~js.ok
             THEN ModuleLoadFail([loaded EXCEPT !.msg = MsgTranspile])
        ELSE [ok |-> TRUE, msg |-> NoMsg, read |-> loaded.read, fetched |-> loaded.fetched,
              source |-> [code |-> IF ShouldTranspile(media_type) THEN js.code ELSE loaded.code,
                          module_type |-> ModuleTypeOf(media_type),
                          url |-> module_specifier]]

----------------------------------------------------------------------------
(* The filesystems the program is started on *)

AB == <<"a", "b">>

CD == <<"c", "d">>

ZZ == <<"z", "z">>

\* no valid extension name: an uppercase letter
BAD == <<"A", "b">>

S_DIR == <<"s">>

P_DIR == <<"p">>

O_DIR == <<"o">>

LIB == <<"l", "i", "b">>

LNK == <<"l", "n", "k">>

M_TS == <<"m", ".", "t", "s">>

X_TS == <<"x", ".", "t", "s">>

SL_TS == <<"s", "l", ".", "t", "s">>

D_JSON == <<"d", ".", "j", "s", "o", "n">>

M_TOML == <<"m", ".", "t", "o", "m", "l">>

\* a package outside canonical storage, as given to `extension install`
SrcPkg == <<ROOTC, S_DIR, P_DIR>>

\* a directory that belongs to no package
Outside == <<ROOTC, O_DIR>>

PlainDir == DirNode(493)

MkFs(entries) ==
    [k \in {e[1] : e \in entries} |-> (CHOOSE e \in entries : e[1] = k)[2]]

BaseEntries ==
    { <<<<ROOTC>>, PlainDir>>, <<data_dir, PlainDir>>, <<<<ROOTC, S_DIR>>, PlainDir>>,
      <<Outside, PlainDir>>, <<Append(Outside, X_TS), FileNode(CodeData("ok"))>> }

\* entry points a manifest may declare
EntryMain == <<M_TS>>

EntryInLib == <<LIB, X_TS>>

EntryEscaping == <<DOTDOT, DOTDOT, O_DIR, X_TS>>

EntryAbsolute == <<ROOTC, O_DIR, X_TS>>

EntryDirectory == <<LIB>>

SrcEntryPoints == {EntryMain, EntryInLib, EntryEscaping, EntryAbsolute, EntryDirectory}

SrcNames == {AB, CD, BAD}

SourceEntries(sc) ==
    {<<SrcPkg, PlainDir>>}
    \cup (CASE sc.manifest = "file" ->
                 {<<Append(SrcPkg, MANIFEST_NAME), FileNode(TomlData(sc.name, sc.entry))>>}
            [] sc.manifest = "garbage" ->
                 {<<Append(SrcPkg, MANIFEST_NAME), FileNode(CodeData("bad"))>>}
            [] sc.manifest = "link" ->
                 {<<Append(SrcPkg, MANIFEST_NAME), LinkNode(Append(Outside, M_TOML))>>,
                  <<Append(Outside, M_TOML), FileNode(TomlData(sc.name, sc.entry))>>}
            [] OTHER -> {})
    \cup (CASE sc.main = "file" -> {<<Append(SrcPkg, M_TS), FileNode(CodeData("ok"))>>}
            [] sc.main = "link" -> {<<Append(SrcPkg, M_TS), LinkNode(Append(Outside, X_TS))>>}
            [] OTHER -> {})
    \cup (CASE sc.lib = "dir" ->
                 {<<Append(SrcPkg, LIB), PlainDir>>,
                  <<SrcPkg \o <<LIB, X_TS>>, FileNode(CodeData("ok"))>>}
            [] sc.lib = "link" -> {<<Append(SrcPkg, LIB), LinkNode(Outside)>>}
            [] OTHER -> {})

\* a package directory dir in canonical storage whose manifest declares name
StoredPackage(dir, name) ==
    { <<extension_path(dir), DirNode(DirMode)>>,
      <<Append(extension_path(dir), MANIFEST_NAME), FileNode(TomlData(name, EntryMain))>>,
      <<Append(extension_path(dir), M_TS), FileNode(CodeData("ok"))>> }

\* symbolic links placed inside a stored package after it was installed
StoredLinks(dir) ==
    { <<Append(extension_path(dir), LIB), DirNode(DirMode)>>,
      <<extension_path(dir) \o <<LIB, X_TS>>, FileNode(CodeData("ok"))>>,
      <<extension_path(dir) \o <<LIB, D_JSON>>, FileNode(CodeData("bad"))>>,
      <<Append(extension_path(dir), LNK), LinkNode(Append(extension_path(dir), LIB))>>,
      <<Append(extension_path(dir), SL_TS), LinkNode(Append(extension_path(dir), M_TS))>> }

StorageEntries(sc) ==
    (IF sc.root
     THEN {<<Append(data_dir, PHYLUM), PlainDir>>, <<extensions_path, PlainDir>>}
     ELSE {})
    \cup (CASE sc.ab = "plain" -> StoredPackage(AB, AB)
            [] sc.ab = "links" -> StoredPackage(AB, AB) \cup StoredLinks(AB)
            [] OTHER -> {})
    \cup (CASE sc.cd = "plain" -> StoredPackage(CD, CD)
            [] sc.cd = "mismatch" -> StoredPackage(CD, AB)
            [] OTHER -> {})

ScenarioFs(sc) == MkFs(BaseEntries \cup SourceEntries(sc) \cup StorageEntries(sc))

Scenarios ==
    {sc \in [manifest : {"absent", "garbage", "file", "link"}, name : SrcNames,
             entry : SrcEntryPoints, main : {"absent", "file", "link"},
             lib : {"absent", "dir", "link"}, root : BOOLEAN,
             ab : {"none", "plain"}, cd : {"none", "mismatch"}] :
        /\ sc.manifest \in {"absent", "garbage"} => sc.name = AB /\ sc.entry = EntryMain
        /\ sc.manifest = "link" => sc.name = AB
        /\ (sc.ab # "none" \/ sc.cd # "none") => sc.root}

LoaderScenarios ==
    {sc \in [manifest : {"file"}, name : {AB}, entry : {EntryMain}, main : {"file"},
             lib : {"absent"}, root : BOOLEAN,
             ab : {"none", "plain", "links"}, cd : {"none", "plain", "mismatch"}] :
        (sc.ab # "none" \/ sc.cd # "none") => sc.root}

----------------------------------------------------------------------------
(* State: fs is the filesystem, ext the Extension value the caller holds   *)
(* (NoExt when it holds none), res the last operation and its result.      *)

\* no work in flight
NoTask == [pc |-> "none"]

NoRes == [op |-> "none", ok |-> TRUE, msg |-> NoMsg, info |-> [path |-> <<>>]]

Init ==
    /\ fs \in {ScenarioFs(sc) : sc \in Scenarios}
    /\ ext = NoExt
    /\ res = NoRes
    /\ task = NoTask

\* the directories validation is asked about
CandidatePaths ==
    {SrcPkg, extension_path(AB), extension_path(CD), Outside, Append(SrcPkg, M_TS)}

LoadNames == {AB, CD, ZZ}

\* Extension::try_from(path); the caller holds what the constructor returned
\* (no Extension after an error)
TryFrom(path) ==
    LET r == try_from(fs, path)
    IN  /\ ext' = r.ext
        /\ res' = [op |-> "try_from", ok |-> r.ok, msg |-> r.msg, info |-> [path |-> path]]
        /\ UNCHANGED <<fs, task>>

\* Extension::load(name)
LoadExt(name) ==
    LET r == load(fs, name)
    IN  /\ ext' = r.ext
        /\ res' = [op |-> "load", ok |-> r.ok, msg |-> r.msg, info |-> [name |-> name]]
        /\ UNCHANGED <<fs, task>>

\* ext.install()
Install ==
    /\ ext # NoExt
    /\ \E w \in (IF Walks(fs, ext.path) = {} THEN {<<>>} ELSE Walks(fs, ext.path)) :
         LET r == install(fs, ext, w)
         IN  /\ fs' = r.fs
             /\ res' = [op |-> "install", ok |-> r.ok, msg |-> r.msg,
                        info |-> [self |-> ext, skipped |-> r.skipped]]
    /\ UNCHANGED <<ext, task>>

\* ext.uninstall(): the value is consumed
Uninstall ==
    /\ ext # NoExt
    /\ LET r == uninstall(fs, ext)
       IN  /\ fs' = r.fs
           /\ res' = [op |-> "uninstall", ok |-> r.ok, msg |-> r.msg, info |-> [self |-> ext]]
    /\ ext' = NoExt
    /\ UNCHANGED task

Next ==
    \/ \E path \in CandidatePaths : TryFrom(path)
    \/ \E name \in LoadNames : LoadExt(name)
    \/ Install
    \/ Uninstall

Spec == Init /\ [][Next]_vars

----------------------------------------------------------------------------
(* The module loader at work: an installed extension is loaded by name and *)
(* run, and its imports arrive at ModuleLoader::load.                      *)

STD == <<"s", "t", "d">>

N_TXT == <<"n", ".", "t", "x", "t">>

Q_TS == <<"q", ".", "t", "s">>

HttpsUrl(host, path) == [scheme |-> "https", host |-> host, path |-> path]

\* File locators.  Url::parse has removed every "." and ".." segment, so
\* the paths are normalised.
FileLocators ==
    { FileUrl(Append(extension_path(AB), M_TS)),
      FileUrl(extension_path(AB) \o <<LIB, X_TS>>),
      FileUrl(extension_path(AB) \o <<LIB, D_JSON>>),
      FileUrl(extension_path(AB) \o <<LNK, X_TS>>),
      FileUrl(Append(extension_path(AB), SL_TS)),
      FileUrl(Append(extension_path(AB), Q_TS)),
      FileUrl(Append(extension_path(AB), MANIFEST_NAME)),
      FileUrl(Append(extension_path(CD), M_TS)),
      FileUrl(Append(Outside, X_TS)),
      FileUrl(Append(SrcPkg, M_TS)),
      [FileUrl(Append(extension_path(AB), M_TS)) EXCEPT !.host = Domain("evil.example")] }

NetLocators ==
    { HttpsUrl(Domain("deno.land"), <<ROOTC, STD, X_TS>>),
      HttpsUrl(Domain("deno.land"), <<ROOTC, STD, D_JSON>>),
      HttpsUrl(Domain("deno.land"), <<ROOTC, STD, N_TXT>>),
      HttpsUrl(Domain("evil.example"), <<ROOTC, STD, X_TS>>),
      HttpsUrl(Domain("land"), <<ROOTC, STD, X_TS>>),
      HttpsUrl(Ipv4("10.0.0.1"), <<ROOTC, STD, X_TS>>),
      [HttpsUrl(Domain("deno.land"), <<ROOTC, STD, X_TS>>) EXCEPT !.scheme = "http"],
      [HttpsUrl(Domain("deno.land"), <<ROOTC, STD, X_TS>>) EXCEPT !.scheme = "ftp"] }

OtherLocators ==
    { PhylumUrl,
      [PhylumUrl EXCEPT !.path = <<X_TS>>],
      [scheme |-> "data", host |-> NoHost, path |-> <<X_TS>>] }

Locators == FileLocators \cup NetLocators \cup OtherLocators

\* what the network answers
NetOutcomes == {"fail", "ok", "bad"}

InitLoader ==
    /\ fs \in {ScenarioFs(sc) : sc \in LoaderScenarios}
    /\ ext = NoExt
    /\ res = NoRes
    /\ task = NoTask

\* ModuleLoader::load(module_specifier) while ext is run
ModuleLoad(url, net) ==
    /\ ext # NoExt
    /\ LET r == module_load(fs, url, net)
       IN  res' = [op |-> "module_load", ok |-> r.ok, msg |-> r.msg,
                   info |-> [url |-> url, read |-> r.read, fetched |-> r.fetched,
                             source |-> r.source]]
    /\ UNCHANGED <<fs, ext, task>>

NextLoader ==
    \/ \E name \in LoadNames : LoadExt(name)
    \/ \E url \in Locators, net \in NetOutcomes : ModuleLoad(url, net)

SpecLoader == InitLoader /\ [][NextLoader]_vars

----------------------------------------------------------------------------
(* Name validation on its own: validate_name applied to candidate names    *)

\* res holds the candidate name until validate_name is applied to it
InitName ==
    /\ fs = MkFs(BaseEntries)
    /\ ext = NoExt
    /\ res \in {[op |-> "candidate", ok |-> TRUE, msg |-> NoMsg, info |-> [name |-> name]] :
                   name \in CandidateNames}
    /\ task = NoTask

ValidateName ==
    /\ res.op = "candidate"
    /\ LET r == validate_name(res.info.name)
       IN  res' = [op |-> "validate_name", ok |-> r.ok, msg |-> r.msg, info |-> res.info]
    /\ UNCHANGED <<fs, ext, task>>

NextName == ValidateName

SpecName == InitName /\ [][NextName]_vars

----------------------------------------------------------------------------
(* Well-formedness of the filesystem: every entry but the root lies in a   *)
(* directory.                                                              *)

FsWellFormed ==
    \A k \in DOMAIN fs :
        /\ k[1] = ROOTC
        /\ Len(k) > 1 => Parent(k) \in DOMAIN fs /\ fs[Parent(k)].kind = "dir"

----------------------------------------------------------------------------
(* Claims about the module loader (specification SpecLoader)               *)

\* the path a file locator names
LocatorPath(url) == to_file_path(url).path

\* some component of the path is a symbolic link
ThroughSymlink(f, p) == \E i \in 2..Len(p) : is_symlink(f, SubSeq(p, 1, i))

\* C1: a local-file locator is read only if its path lies inside the package
\* directory of the extension being run; every path outside that directory,
\* also one inside another extension's directory in canonical storage, is
\* rejected and nothing is read.
C1_ReadOnlyInsideOwnPackage ==
    (res.op = "module_load" /\ res.info.url.scheme = "file") =>
        /\ res.info.read # NotFound => StartsWith(res.info.read, ext.path)
        /\ ~StartsWith(LocatorPath(res.info.url), ext.path) =>
               ~res.ok /\ res.info.read = NotFound

\* C1, the case: a file locator inside canonical storage and outside the
\* package directory of the running extension has been loaded
C1_Witness ==
    /\ res.op = "module_load" /\ res.info.url.scheme = "file"
    /\ to_file_path(res.info.url).ok
    /\ StartsWith(LocatorPath(res.info.url), extensions_path)
    /\ ~StartsWith(LocatorPath(res.info.url), ext.path)

\* C2: a local import that goes through a symbolic link is rejected and no
\* file content is returned, both when the file of the locator is a
\* symbolic link and when a directory on its path is one.
C2_NoImportThroughSymlink ==
    (/\ res.op = "module_load" /\ res.info.url.scheme = "file"
     /\ to_file_path(res.info.url).ok
     /\ ThroughSymlink(fs, LocatorPath(res.info.url))) =>
        ~res.ok /\ res.info.read = NotFound /\ res.info.source = NoSource

\* C2, the case: a locator whose directory is a symbolic link inside the
\* package directory has been loaded
C2_Witness ==
    /\ res.op = "module_load" /\ res.info.url.scheme = "file"
    /\ StartsWith(LocatorPath(res.info.url), ext.path)
    /\ is_symlink(fs, Parent(LocatorPath(res.info.url)))
    /\ StartsWith(Realpath(fs, LocatorPath(res.info.url)), ext.path)

\* C3: a fetch is performed only for an https locator whose host is the
\* domain deno.land; an https locator with any other host, or with a host
\* that is no domain, is rejected and nothing is fetched; a locator whose
\* scheme is neither file nor https is rejected, nothing fetched and nothing
\* read.  (The injected API locator deno:phylum is no network locator: it is
\* served from memory, first, and it too fetches and reads nothing.)
C3_FetchOnlyFromDenoLand ==
    res.op = "module_load" =>
        /\ res.info.fetched =>
               res.info.url.scheme = "https" /\ res.info.url.host = Domain("deno.land")
        /\ (res.info.url.scheme = "https" /\ res.info.url.host # Domain("deno.land")) =>
               ~res.ok /\ ~res.info.fetched /\ res.info.source = NoSource
        /\ (res.info.url.scheme \notin {"file", "https"} /\ res.info.url # PhylumUrl) =>
               ~res.ok /\ ~res.info.fetched /\ res.info.read = NotFound
        /\ res.info.url = PhylumUrl => ~res.info.fetched /\ res.info.read = NotFound

\* C3, the case: an https locator of another host has been rejected
C3_Witness ==
    /\ res.op = "module_load"
    /\ res.info.url.scheme = "https"
    /\ res.info.url.host.kind = "domain" /\ res.info.url.host # Domain("deno.land")
    /\ MediaTypeOf(res.info.url) # "Unknown"
    /\ ~res.ok /\ res.msg = MsgDomain

----------------------------------------------------------------------------
(* Claims about validation and the lifecycle (specification Spec)          *)

\* the entries of the package directory of self, relative to it
PackageEntries(f, self) ==
    {StripPrefix(k, self.path) : k \in {x \in DOMAIN f : StartsWith(x, self.path)}}

TargetOf(self) == extension_path(self.manifest.name)

\* C4: Install skips every symbolic link of the source tree with a warning,
\* whether it points to a file or to a directory: the link is not followed
\* and nothing is created in the target tree at the path of the link.
C4_SymlinksNeverMaterialized ==
    (res.op = "install" /\ res.ok) =>
        \A rel \in PackageEntries(fs, res.info.self) :
            is_symlink(fs, res.info.self.path \o rel) =>
                /\ (res.info.self.path \o rel) \in res.info.skipped
                /\ EntryPath(fs, TargetOf(res.info.self) \o rel) = NotFound

\* C4, the case: an Install of a package that holds a symbolic link to a
\* directory has succeeded
C4_Witness ==
    /\ res.op = "install" /\ res.ok
    /\ \E rel \in PackageEntries(fs, res.info.self) :
           /\ is_symlink(fs, res.info.self.path \o rel)
           /\ is_dir(fs, res.info.self.path \o rel)

\* C5: validation yields an Extension only if the entry point, resolved
\* relative to the package root, is a regular file inside the package
\* directory; an absolute entry point, one that leaves the root through
\* "..", a directory and an absent file never yield an Extension.
C5_EntryPointInsidePackage ==
    (res.op = "try_from" /\ res.ok) =>
        /\ is_file(fs, Join(ext.path, ext.manifest.entry_point))
        /\ ext.manifest.entry_point[1] # ROOTC
        /\ \A i \in 1..Len(ext.manifest.entry_point) : ext.manifest.entry_point[i] # DOTDOT
        /\ StartsWith(Realpath(fs, Join(ext.path, ext.manifest.entry_point)), ext.path)

\* C5, the case: a package whose manifest declares an absolute entry point
\* has been validated
C5_Witness ==
    /\ res.op = "try_from"
    /\ is_file(fs, Append(res.info.path, MANIFEST_NAME))
    /\ ReadFile(fs, Append(res.info.path, MANIFEST_NAME)).data.toml
    /\ ReadFile(fs, Append(res.info.path, MANIFEST_NAME)).data.entry_point = EntryAbsolute

\* C6: Load(name) returns an Extension only when the manifest in
\* <canonical root>/<name> declares that same name.
C6_LoadedNameIsDirectoryName ==
    (res.op = "load" /\ res.ok) =>
        /\ ext.path = extension_path(res.info.name)
        /\ ext.manifest.name = res.info.name

\* C6, the case: Load of a directory of canonical storage whose manifest
\* declares another name
C6_Witness ==
    /\ res.op = "load"
    /\ is_file(fs, Append(extension_path(res.info.name), MANIFEST_NAME))
    /\ ReadFile(fs, Append(extension_path(res.info.name), MANIFEST_NAME)).data.toml
    /\ ReadFile(fs, Append(extension_path(res.info.name), MANIFEST_NAME)).data.name # res.info.name

\* C7: whenever the canonical target of the extension's name exists, also
\* when the source is that canonical path itself, Install fails with a
\* message that contains "skipping" (and "already exists" when the source is
\* another directory), and the filesystem is left as it was.
C7_InstallNeverOverwrites ==
    [][(res'.op = "install" /\ exists(fs, TargetOf(ext))) =>
           /\ ~res'.ok
           /\ Contains(res'.msg, "skipping")
           /\ ext.path # TargetOf(ext) => Contains(res'.msg, "already exists")
           /\ fs' = fs]_vars

\* C7, the case: an Install onto an existing target, from another directory,
\* has failed
C7_Witness ==
    /\ res.op = "install" /\ ~res.ok
    /\ res.info.self.path # TargetOf(res.info.self)
    /\ is_dir(fs, TargetOf(res.info.self))
    /\ Contains(res.msg, "already exists")

\* C8: Uninstall deletes only when the backing path is the canonical install
\* path of the declared name, and then the whole backing directory is gone
\* after a successful Uninstall and nothing else is touched; in every other
\* case it fails with "not installed" and removes nothing.
C8_UninstallOnlyCanonical ==
    [][res'.op = "uninstall" =>
           IF ext.path = TargetOf(ext)
           THEN /\ res'.ok => \A k \in DOMAIN fs' : ~StartsWith(k, ext.path)
                /\ \A k \in DOMAIN fs :
                       ~StartsWith(k, ext.path) => k \in DOMAIN fs' /\ fs'[k] = fs[k]
                /\ DOMAIN fs' \subseteq DOMAIN fs
           ELSE /\ ~res'.ok
                /\ Contains(res'.msg, "not installed")
                /\ fs' = fs]_vars

\* C8, the case: an Uninstall of an installed extension has succeeded and
\* its directory is gone
C8_Witness ==
    /\ res.op = "uninstall" /\ res.ok
    /\ res.info.self.path = TargetOf(res.info.self)
    /\ ~exists(fs, res.info.self.path)

\* C8, the other case: an Uninstall of an extension loaded from elsewhere
\* has been refused
C8_RefusedReached ==
    /\ res.op = "uninstall" /\ ~res.ok
    /\ res.info.self.path = SrcPkg

\* C9: after a successful Install of an Extension with declared name N, a
\* Load(N) that follows at once succeeds and yields an Extension named N;
\* Load of a name with no directory in canonical storage fails.
C9_InstallThenLoad ==
    [][res'.op = "load" =>
           /\ (res.op = "install" /\ res.ok /\ res'.info.name = ext.manifest.name) =>
                  res'.ok /\ ext'.manifest.name = res'.info.name
           /\ ~exists(fs, extension_path(res'.info.name)) => ~res'.ok]_vars

\* C9, the case: a Load of a name that Install has put into canonical
\* storage (no filesystem the program starts on holds a package that
\* declares this name)
C9_Witness ==
    /\ res.op = "load" /\ res.ok
    /\ res.info.name = CD
    /\ ext.manifest.name = CD

----------------------------------------------------------------------------
(* Claim about name validation (specification SpecName)                    *)

\* ^[a-z][a-z0-9-]+$ said directly: a lowercase letter, then one or more
\* lowercase letters, digits or dashes, and nothing else
MatchesNamePattern(name) ==
    /\ Len(name) >= 2
    /\ name[1] \in Lower
    /\ \A i \in 2..Len(name) : name[i] \in Lower \cup Digit \cup {"-"}

----------------------------------------------------------------------------
(* Order of the validation checks                                          *)

\* the first failure in the order: directory, manifest file, manifest
\* parses, name matches the pattern, entry point exists, entry point is a
\* regular file (NoMsg when no check fails)
FirstFailureNameBeforeEntry(f, path) ==
    LET manifest_path == Append(path, MANIFEST_NAME)
        buf           == ReadFile(f, manifest_path)
    IN  IF ~is_dir(f, path) THEN MsgNotADirectory
        ELSE IF ~exists(f, manifest_path) THEN MsgMissingManifest
        ELSE IF ~buf.ok THEN MsgIo
        ELSE IF ~buf.data.toml THEN MsgToml
        ELSE IF ~MatchesNamePattern(buf.data.name) THEN MsgInvalidName
        ELSE IF ~exists(f, Join(path, buf.data.entry_point)) THEN MsgEntryMissing
        ELSE IF ~is_file(f, Join(path, buf.data.entry_point)) THEN MsgEntryNotFile
        ELSE NoMsg

\* C11: validation of a candidate directory reports the first failing check
\* in the order directory, manifest file, manifest parses, name pattern,
\* entry point exists and is a regular file; a manifest with an invalid name
\* and a missing entry point fails with the invalid-name error.
C11_ValidationOrder ==
    res.op = "try_from" =>
        /\ res.msg = FirstFailureNameBeforeEntry(fs, res.info.path)
        /\ res.ok <=> res.msg = NoMsg

\* C11, the case: a directory whose manifest parses, declares an invalid
\* name and an entry point that does not exist, has been validated
C11_Witness ==
    /\ res.op = "try_from"
    /\ is_dir(fs, res.info.path)
    /\ is_file(fs, Append(res.info.path, MANIFEST_NAME))
    /\ ReadFile(fs, Append(res.info.path, MANIFEST_NAME)).data.toml
    /\ ~MatchesNamePattern(ReadFile(fs, Append(res.info.path, MANIFEST_NAME)).data.name)
    /\ ~exists(fs, Join(res.info.path,
                        ReadFile(fs, Append(res.info.path, MANIFEST_NAME)).data.entry_point))

----------------------------------------------------------------------------
(* Extension::run and deno::run: one call is a sequence of steps, task.pc  *)
(* the step the call is at.  task.steps is the history of the steps taken  *)
(* in the call, task.call the number of the call; the worker is a local of *)
(* deno::run, and is named after the call that made it.                    *)

MaxCalls == 2

\* the most work the entry module leaves for the event loop
MaxPending == 2

MsgResolve == <<"resolve error">>

MsgPermissions == <<"permissions error">>

MsgScript == <<"uncaught error">>

NoWorker == [made_by |-> 0, op_state |-> "empty", executed |-> 0, pending |-> 0]

Idle ==
    [pc |-> "idle", call |-> 0, steps |-> <<>>, max_level |-> "Info", args |-> <<>>,
     main_module |-> NotFound, permissions |-> "none", worker |-> NoWorker]

ArgVectors == {<<>>, <<"--test">>, <<"-x", "a">>}

\* Extension::path: the path of the entry point
path(self) == Join(self.path, self.manifest.entry_point)

\* no result yet: the call is still at work
Running(t) == [op |-> "running", ok |-> FALSE, msg |-> NoMsg, info |-> [call |-> t.call]]

\* the `?` of deno::run and of Extension::run: the call ends with this one
\* error, the locals (the worker with them) are dropped
RunFailed(t, step, m) ==
    [task |-> [t EXCEPT !.pc = "returned", !.steps = Append(t.steps, step)],
     res  |-> [op |-> "run", ok |-> FALSE, msg |-> m, info |-> [call |-> t.call]]]

\* Ok(ExitCode::Ok.into())
RunSucceeded(t, step) ==
    [task |-> [t EXCEPT !.pc = "returned", !.steps = Append(t.steps, step)],
     res  |-> [op |-> "run", ok |-> TRUE, msg |-> NoMsg, info |-> [call |-> t.call]]]

RunGoes(t, step, pc) ==
    [task |-> [t EXCEPT !.pc = pc, !.steps = Append(t.steps, step)],
     res  |-> Running(t)]

\* log::set_max_level(LevelFilter::Off), then deno::run is entered
set_max_level(t, args) ==
    RunGoes([t EXCEPT !.call = t.call + 1, !.steps = <<>>, !.max_level = "Off",
                      !.args = args, !.main_module = NotFound,
                      !.permissions = "none", !.worker = NoWorker],
            "set_max_level", "resolve_path")

\* deno_core::resolve_path(&extension.path())?
resolve_path(t, self, ok) ==
    IF ok THEN RunGoes([t EXCEPT !.main_module = path(self)], "resolve_path", "permissions")
    ELSE RunFailed(t, "resolve_path", MsgResolve)

\* Permissions::from_options(&extension.permissions().try_into()?)
permissions_try_into(t, ok) ==
    IF ok THEN RunGoes([t EXCEPT !.permissions = "granted"], "permissions", "bootstrap")
    ELSE RunFailed(t, "permissions", MsgPermissions)

\* MainWorker::bootstrap_from_options(main_module, permissions, options)
bootstrap_from_options(t) ==
    RunGoes([t EXCEPT !.worker = [NoWorker EXCEPT !.made_by = t.call]],
            "bootstrap", "put")

\* worker.js_runtime.op_state().borrow_mut().put(extension_state)
op_state_put(t) ==
    RunGoes([t EXCEPT !.worker.op_state = "extension_state"], "put", "execute_main_module")

\* the entry module ends without running the event loop
execute_main_module_NoEventLoop(t, ok, pending) ==
    IF ok
    THEN RunSucceeded([t EXCEPT !.worker.executed = @ + 1, !.worker.pending = pending],
                      "execute_main_module")
    ELSE RunFailed([t EXCEPT !.worker.executed = @ + 1], "execute_main_module", MsgScript)

\* worker.execute_main_module(&main_module).await?; pending is the work the
\* module has scheduled when its evaluation ends
execute_main_module(t, ok, pending) ==
    IF ok
    THEN RunGoes([t EXCEPT !.worker.executed = @ + 1, !.worker.pending = pending],
                 "execute_main_module", "run_event_loop")
    ELSE RunFailed([t EXCEPT !.worker.executed = @ + 1], "execute_main_module", MsgScript)

\* worker.run_event_loop(false).await, one turn of the loop: it returns Ok
\* when no work remains, the error of a piece of work that fails, and
\* otherwise goes on with one piece of work less
run_event_loop(t, ok) ==
    IF t.worker.pending = 0
    THEN RunSucceeded(t, "run_event_loop_finished")
    ELSE IF ~ok THEN RunFailed(t, "run_event_loop", MsgScript)
    ELSE RunGoes([t EXCEPT !.worker.pending = @ - 1], "run_event_loop", "run_event_loop")

\* an installed extension is held, nothing runs
InitRun ==
    /\ fs = ScenarioFs([manifest |-> "file", name |-> AB, entry |-> EntryMain,
                        main |-> "file", lib |-> "absent", root |-> TRUE,
                        ab |-> "plain", cd |-> "plain"])
    /\ ext \in {load(fs, AB).ext, load(fs, CD).ext}
    /\ res = NoRes
    /\ task = Idle

Step(r) ==
    /\ task' = r.task
    /\ res' = r.res
    /\ UNCHANGED <<fs, ext>>

\* Extension::run is called
RunCall(args) ==
    /\ task.pc \in {"idle", "returned"}
    /\ task.call < MaxCalls
    /\ Step(set_max_level(task, args))

ResolvePath ==
    /\ task.pc = "resolve_path"
    /\ \E ok \in BOOLEAN : Step(resolve_path(task, ext, ok))

TranslatePermissions ==
    /\ task.pc = "permissions"
    /\ \E ok \in BOOLEAN : Step(permissions_try_into(task, ok))

BootstrapWorker ==
    /\ task.pc = "bootstrap"
    /\ Step(bootstrap_from_options(task))

PutState ==
    /\ task.pc = "put"
    /\ Step(op_state_put(task))

ExecuteMainModule ==
    /\ task.pc = "execute_main_module"
    /\ \E ok \in BOOLEAN, pending \in 0..MaxPending :
         Step(execute_main_module(task, ok, pending))

RunEventLoop ==
    /\ task.pc = "run_event_loop"
    /\ \E ok \in BOOLEAN : Step(run_event_loop(task, ok))

NextRun ==
    \/ \E args \in ArgVectors : RunCall(args)
    \/ ResolvePath
    \/ TranslatePermissions
    \/ BootstrapWorker
    \/ PutState
    \/ ExecuteMainModule
    \/ RunEventLoop

SpecRun == InitRun /\ [][NextRun]_vars

----------------------------------------------------------------------------
(* Order of the steps of Run                                               *)

\* the place of a step in the order: logging suppressed, permissions
\* translated, context constructed, shared state placed, entry module
\* executed, event loop driven (0: a step the order does not speak of)
StepRank(step) ==
    CASE step = "set_max_level" -> 1
      [] step = "permissions" -> 2
      [] step = "bootstrap" -> 3
      [] step = "put" -> 4
      [] step = "execute_main_module" -> 5
      [] step \in {"run_event_loop", "run_event_loop_finished"} -> 6
      [] OTHER -> 0

IsRanked(step) == StepRank(step) > 0

FallibleSteps == {"resolve_path", "permissions", "execute_main_module", "run_event_loop"}

\* C12: in every call of Run the steps happen in the order logging
\* suppressed, permissions translated, fresh context constructed, shared
\* state placed, entry module executed exactly once, event loop driven until
\* no work remains; a failing step ends the call with a single failure and
\* no later step, and success is reported only after the event loop finished.
C12_RunStepOrder ==
    task.pc \notin {"none", "idle"} =>
        LET s == SelectSeq(task.steps, IsRanked)
        IN  /\ StepRank(s[1]) = 1 /\ task.max_level = "Off"
            /\ \A i \in 1..(Len(s) - 1) :
                 \/ StepRank(s[i + 1]) = StepRank(s[i]) + 1
                 \/ StepRank(s[i]) = 6 /\ StepRank(s[i + 1]) = 6
            /\ Cardinality({i \in 1..Len(s) : s[i] = "execute_main_module"}) <= 1
            /\ task.worker.executed =
                   Cardinality({i \in 1..Len(s) : s[i] = "execute_main_module"})
            /\ task.worker.made_by \in {0, task.call}
            /\ task.worker.executed > 0 =>
                   /\ task.worker.made_by = task.call
                   /\ task.worker.op_state = "extension_state"
                   /\ task.permissions = "granted"
            /\ res.op = "run" <=> task.pc = "returned"
            /\ (res.op = "run" /\ res.ok) =>
                   /\ Last(task.steps) = "run_event_loop_finished"
                   /\ task.worker.executed = 1
                   /\ task.worker.pending = 0
            /\ (res.op = "run" /\ ~res.ok) =>
                   /\ Last(task.steps) \in FallibleSteps
                   /\ res.msg # NoMsg
                   /\ \A i \in 1..(Len(task.steps) - 1) :
                        task.steps[i] # "run_event_loop_finished"

\* C12, the case: a second call of Run has returned success after the event
\* loop worked off what the entry module had scheduled
C12_Witness ==
    /\ res.op = "run" /\ res.ok
    /\ task.call = 2
    /\ \E i \in 1..Len(task.steps) : task.steps[i] = "run_event_loop"

----------------------------------------------------------------------------
(* Install calls that run at the same time (two invocations of the CLI on  *)
(* one data home).  A call is a sequence of operations on the shared       *)
(* filesystem: target_prefix.exists(), then for every entry of the walk    *)
(* either the creation of a directory, or dest_path.exists() followed by   *)
(* fs::copy.  The operations of the calls interleave in every order.       *)
(* task.procs[k] is call k: its Extension, its walk w, its position i in   *)
(* the walk, its step pc and, once returned, its result; created is the    *)
(* set of paths the call has created.                                      *)

Q_DIR == <<"q">>

\* a second package outside canonical storage
SrcPkg2 == <<ROOTC, S_DIR, Q_DIR>>

Procs == {1, 2}

RaceScenarios == [root : BOOLEAN, name2 : {CD, AB}, lib : BOOLEAN]

\* /s/p declares cd with entry point m.ts, /s/q declares name2 with entry
\* point x.ts and may hold a directory lib
RaceFs(sc) ==
    MkFs(BaseEntries
         \cup (IF sc.root
               THEN {<<Append(data_dir, PHYLUM), PlainDir>>, <<extensions_path, PlainDir>>}
               ELSE {})
         \cup { <<SrcPkg, PlainDir>>,
                <<Append(SrcPkg, MANIFEST_NAME), FileNode(TomlData(CD, EntryMain))>>,
                <<Append(SrcPkg, M_TS), FileNode(CodeData("ok"))>>,
                <<SrcPkg2, PlainDir>>,
                <<Append(SrcPkg2, MANIFEST_NAME), FileNode(TomlData(sc.name2, <<X_TS>>))>>,
                <<Append(SrcPkg2, X_TS), FileNode(CodeData("ok"))>> }
         \cup (IF sc.lib
               THEN {<<Append(SrcPkg2, LIB), PlainDir>>,
                     <<SrcPkg2 \o <<LIB, D_JSON>>, FileNode(CodeData("ok"))>>}
               ELSE {}))

\* a call of install about to start
Proc(self, w) ==
    [self |-> self, w |-> w, i |-> 0, pc |-> "exists_check", ok |-> FALSE, msg |-> NoMsg,
     created |-> {}]

\* return Err(..) / Ok(())
Returned(f, p, ok, m) ==
    [fs |-> f, proc |-> [p EXCEPT !.pc = "returned", !.ok = ok, !.msg = m]]

\* the next entry of the walk; Ok(()) after the last one
Advance(f, p) ==
    IF p.i + 1 > Len(p.w) THEN Returned(f, p, TRUE, NoMsg)
    ELSE [fs |-> f, proc |-> [p EXCEPT !.pc = "entry", !.i = p.i + 1]]

\* install up to the loop: target_prefix.exists(), target_prefix == self.path
install_exists_check(f, p) ==
    LET target_prefix == extension_path(p.self.manifest.name)
    IN  IF exists(f, target_prefix) THEN Returned(f, p, FALSE, MsgAlreadyExists)
        ELSE IF target_prefix = p.self.path THEN Returned(f, p, FALSE, MsgIdentical)
        ELSE IF p.w = <<>> THEN Returned(f, p, FALSE, MsgIo)
        ELSE Advance(f, p)

\* one entry of the loop, with the target looked at once more
install_entry_RechecksTarget(f, p) ==
    LET target_prefix == extension_path(p.self.manifest.name)
        dest_path     == target_prefix \o p.w[p.i]
        mk            == CreateDirAll(f, dest_path, DirMode)
    IN  IF p.created = {} /\ exists(f, target_prefix)
        THEN Returned(f, p, FALSE, MsgAlreadyExists)
        ELSE IF is_dir(f, p.self.path \o p.w[p.i]) /\ mk.ok
        THEN Advance(mk.fs, [p EXCEPT !.created = @ \cup (DOMAIN mk.fs \ DOMAIN f)])
        ELSE IF is_dir(f, p.self.path \o p.w[p.i]) THEN Returned(mk.fs, p, FALSE, MsgIo)
        ELSE IF exists(f, dest_path) THEN Returned(f, p, FALSE, MsgDestExists)
        ELSE [fs |-> f, proc |-> [p EXCEPT !.pc = "copy"]]

\* one entry of the loop, a destination that exists is copied over
install_entry_Overwrites(f, p) ==
    LET source_path == p.self.path \o p.w[p.i]
        dest_path   == extension_path(p.self.manifest.name) \o p.w[p.i]
        mk          == CreateDirAll(f, dest_path, DirMode)
    IN  IF is_dir(f, source_path) /\ mk.ok
        THEN Advance(mk.fs, [p EXCEPT !.created = @ \cup (DOMAIN mk.fs \ DOMAIN f)])
        ELSE IF is_dir(f, source_path) THEN Returned(mk.fs, p, FALSE, MsgIo)
        ELSE [fs |-> f, proc |-> [p EXCEPT !.pc = "copy"]]

\* one entry of the loop, up to and without the copy: the directory is
\* created, the symbolic link skipped, the destination of a regular file
\* tested
install_entry(f, p) ==
    LET source_path == p.self.path \o p.w[p.i]
        dest_path   == extension_path(p.self.manifest.name) \o p.w[p.i]
        mk          == CreateDirAll(f, dest_path, DirMode)
    IN  IF is_dir(f, source_path)
        THEN IF mk.ok
             THEN Advance(mk.fs, [p EXCEPT !.created = @ \cup (DOMAIN mk.fs \ DOMAIN f)])
             ELSE Returned(mk.fs, p, FALSE, MsgIo)
        ELSE IF is_symlink(f, source_path) THEN Advance(f, p)
        ELSE IF is_file(f, source_path)
        THEN IF exists(f, dest_path) THEN Returned(f, p, FALSE, MsgDestExists)
             ELSE [fs |-> f, proc |-> [p EXCEPT !.pc = "copy"]]
        ELSE Advance(f, p)

\* fs::copy(source_path, dest_path)?
install_copy(f, p) ==
    LET source_path == p.self.path \o p.w[p.i]
        dest_path   == extension_path(p.self.manifest.name) \o p.w[p.i]
        cp          == CopyFile(f, source_path, dest_path)
    IN  IF cp.ok THEN Advance(cp.fs, [p EXCEPT !.created = @ \cup (DOMAIN cp.fs \ DOMAIN f)])
        ELSE Returned(cp.fs, p, FALSE, MsgIo)

\* both packages have been validated, both install calls are about to start
InitRace ==
    /\ fs \in {RaceFs(sc) : sc \in RaceScenarios}
    /\ ext = NoExt
    /\ res = NoRes
    /\ task \in {[pc |-> "installs",
                  procs |-> <<Proc(try_from(fs, SrcPkg).ext, w1),
                              Proc(try_from(fs, SrcPkg2).ext, w2)>>] :
                    w1 \in Walks(fs, SrcPkg), w2 \in Walks(fs, SrcPkg2)}

\* call k takes the step r; a call that returns reports its result
ProcStep(k, r) ==
    /\ fs' = r.fs
    /\ task' = [task EXCEPT !.procs[k] = r.proc]
    /\ res' = IF r.proc.pc = "returned"
              THEN [op |-> "install", ok |-> r.proc.ok, msg |-> r.proc.msg,
                    info |-> [self |-> r.proc.self, proc |-> k]]
              ELSE res
    /\ UNCHANGED ext

CheckTarget(k) ==
    /\ task.procs[k].pc = "exists_check"
    /\ ProcStep(k, install_exists_check(fs, task.procs[k]))

InstallEntryStep(k) ==
    /\ task.procs[k].pc = "entry"
    /\ ProcStep(k, install_entry(fs, task.procs[k]))

CopyStep(k) ==
    /\ task.procs[k].pc = "copy"
    /\ ProcStep(k, install_copy(fs, task.procs[k]))

NextRace ==
    \/ \E k \in Procs : CheckTarget(k)
    \/ \E k \in Procs : InstallEntryStep(k)
    \/ \E k \in Procs : CopyStep(k)

SpecRace == InitRace /\ [][NextRace]_vars

----------------------------------------------------------------------------
(* Claims about install calls that run at the same time (SpecRace)         *)

TargetPrefix(p) == extension_path(p.self.manifest.name)

SourcePath(p) == p.self.path \o p.w[p.i]

DestPath(p) == TargetPrefix(p) \o p.w[p.i]

\* call p is at a regular file of its source whose destination exists
AtFileConflict(f, p) ==
    /\ p.pc = "entry"
    /\ ~is_dir(f, SourcePath(p)) /\ ~is_symlink(f, SourcePath(p)) /\ is_file(f, SourcePath(p))
    /\ exists(f, DestPath(p))

\* C13: when Install comes to a regular file whose destination path already
\* exists, it fails at once with the conflict error: the destination is not
\* overwritten, no further entry of the source is processed, and what this
\* Install has created stays in canonical storage.
C13_FileConflictStopsInstall ==
    [][\A k \in Procs :
         /\ (task.pc = "installs" /\ AtFileConflict(fs, task.procs[k])
                /\ task'.procs[k] # task.procs[k]) =>
               /\ fs' = fs
               /\ task'.procs[k].pc = "returned"
               /\ ~task'.procs[k].ok
               /\ task'.procs[k].msg = MsgDestExists
               /\ Contains(task'.procs[k].msg, "already exists")
               /\ task'.procs[k].i = task.procs[k].i
               /\ task'.procs[k].created = task.procs[k].created
               /\ task'.procs[k].created \subseteq DOMAIN fs'
         /\ (task.pc = "installs" /\ task.procs[k].pc = "returned") =>
               /\ task'.procs[k] = task.procs[k]
               /\ task.procs[k].created \subseteq DOMAIN fs']_vars

\* C13, the case: an Install has failed with the conflict error at a file
\* another Install had copied, after it had created directories itself and
\* with entries of its walk left
C13_Witness ==
    /\ task.pc = "installs"
    /\ \E k \in Procs :
         /\ task.procs[k].pc = "returned"
         /\ task.procs[k].msg = MsgDestExists
         /\ task.procs[k].created # {}
         /\ task.procs[k].i < Len(task.procs[k].w)
         /\ EntryPath(fs, DestPath(task.procs[k])) # NotFound
         /\ fs[EntryPath(fs, DestPath(task.procs[k]))] # fs[Realpath(fs, SourcePath(task.procs[k]))]

\* C14: installs that run at the same time are not guarded against each
\* other.  The only guard is the test of the target at the start of a call:
\* a call that finds no target there goes on to copy, whatever the other
\* call does, and no call is failed with "extension already exists" at any
\* later point, also when the other call has created the target meanwhile.
C14_ExistsCheckIsTheOnlyGuard ==
    [][\A k \in Procs :
         (task.pc = "installs" /\ task'.procs[k] # task.procs[k]) =>
            /\ (task'.procs[k].pc = "returned" /\ task'.procs[k].msg = MsgAlreadyExists) =>
                  /\ task.procs[k].pc = "exists_check"
                  /\ exists(fs, TargetPrefix(task.procs[k]))
            /\ (task.procs[k].pc = "exists_check" /\ ~exists(fs, TargetPrefix(task.procs[k]))) =>
                  /\ task'.procs[k].pc = "entry"
                  /\ fs' = fs
            /\ (task.procs[k].pc \in {"entry", "copy"} /\ task'.procs[k].pc = "returned"
                    /\ ~task'.procs[k].ok) =>
                  task'.procs[k].msg \in {MsgDestExists, MsgIo}]_vars

\* C14, the case: two installs of the same name have both passed the test of
\* the target and have both returned Ok; the target holds the file only the
\* first source has and the file only the second source has, and the
\* manifest of one of them
C14_Witness ==
    /\ task.pc = "installs"
    /\ \A k \in Procs : task.procs[k].pc = "returned" /\ task.procs[k].ok
    /\ TargetPrefix(task.procs[1]) = TargetPrefix(task.procs[2])
    /\ is_file(fs, Append(TargetPrefix(task.procs[1]), M_TS))
    /\ is_file(fs, Append(TargetPrefix(task.procs[1]), X_TS))
    /\ ~is_file(fs, Append(task.procs[1].self.path, X_TS))
    /\ ~is_file(fs, Append(task.procs[2].self.path, M_TS))

====
